---------------------------- MODULE Spec2Model ----------------------------
(***************************************************************************)
(* Model of the Lazorkit example application: the error normalizer         *)
(* (lib/errors), the transfer hook (useTransfer), the wallet hook          *)
(* (useLazorkit) and the balance hook (useBalance).                        *)
(*                                                                         *)
(* JavaScript strings are modelled as sequences of text fragments: a       *)
(* fragment is a TLA+ string that stands for a piece of text, and two      *)
(* strings are equal iff their fragment sequences are.  String.includes is *)
(* contiguous-subsequence search, String.trim strips whitespace fragments  *)
(* from both ends.  A JavaScript value is a record tagged with its type.   *)
(***************************************************************************)
EXTENDS Integers, Sequences, FiniteSets, TLC

VARIABLES
    \* ---- error normalizer (lib/errors) ----
    errIn,          \* argument of the current transformError call
    errOut,         \* its return value (Undefined before the call returns)
    prevIn,         \* argument of the previous call
    prevOut,        \* return value of the previous call
    reLastIndex,    \* lastIndex of the RegExp object held by ERROR_MAPPINGS
    \* ---- amount conversion (useTransfer, line 153) ----
    amountIn,       \* the amount of SOL passed to transfer()
    lamportsOut,    \* the lamports of the instruction (Undefined before it is built)
    fmtLamports,    \* the lamports behind the balance WalletBalance displays
    fmtOut,         \* the text formatBalance returned (Undefined before the call)
    \* ---- useTransfer ----
    state,              \* TransferState: isSubmitting, signature, error, status
    smartWalletPubkey,  \* the hook's copy of the wallet address, or Null
    tMountedRef,        \* mountedRef.current
    tInitStore,         \* progress of initStore(): "idle", "importing", "subscribed", "failed"
    tSubscriptions,     \* callbacks this hook has registered on the wallet store
    storeWallet,        \* wallet.smartWallet of the external wallet store, or Null
    calls,              \* the transfer() calls made so far, in call order
    \* ---- useLazorkit ----
    localError,         \* the hook's error message, or Null
    isOperating,        \* the local busy flag
    walletAddress,      \* projection of the store: wallet.smartWallet or Null
    isConnected,        \* projection of the store: a wallet is present
    sdkIsLoading,       \* projection of the store: isLoading || isConnecting
    lzMountedRef,       \* mountedRef.current
    lzInitStore,        \* progress of initStore(): "idle", "importing", "subscribed", "failed"
    lzSubscriptions,    \* callbacks this hook has registered on the wallet store
    sdkState,           \* the wallet store's state: wallet, isLoading, isConnecting, error
    sdkConfigured,      \* setConfig has been called on the store
    localStorage,       \* window.localStorage: each key present, with the number of
                        \* action calls made before its value was written
    ops,                \* the createWallet/login/logout calls made so far, in call order
    \* ---- LazorkitProvider ----
    providerInit,       \* progress of init(): "idle", "importing", "ready", "failed"
    \* ---- useBalance ----
    addressProp,        \* the walletAddress argument of the current render, or Null
    balance,            \* SOL balance (a Number) or Null
    balanceLamports,    \* balance in lamports or Null
    isLoading,          \* a fetch is under way
    balanceError,       \* the hook's error message, or Null
    connectionRef,      \* connectionRef.current is a Connection
    intervalRef,        \* Null, or the timer with the address its fetchBalance closes over
    timers,             \* the interval timers that are running
    balMounted,         \* "no", "mounted", "unmounted"
    fetches             \* the getBalance reads dispatched so far, in dispatch order

errVars == <<errIn, errOut, prevIn, prevOut, reLastIndex>>
amtVars == <<amountIn, lamportsOut, fmtLamports, fmtOut>>
trVars == <<state, smartWalletPubkey, tMountedRef, tInitStore, tSubscriptions,
            storeWallet, calls>>

lzVars == <<localError, isOperating, walletAddress, isConnected, sdkIsLoading,
            lzMountedRef, lzInitStore, lzSubscriptions, sdkState, sdkConfigured,
            localStorage, ops>>
pvVars == <<providerInit>>
balVars == <<addressProp, balance, balanceLamports, isLoading, balanceError,
             connectionRef, intervalRef, timers, balMounted, fetches>>

vars == <<errVars, amtVars, trVars, lzVars, pvVars, balVars>>

----------------------------------------------------------------------------
(* Bounds of the model *)

\* longest message (in fragments) enumerated for a single transformError call
MaxMsgLen == 2
\* longest message (in fragments) enumerated for repeated transformError calls
MaxSeqMsgLen == 2
\* largest amount, in units of 10^-9 SOL, enumerated for the amount conversion
MaxNanoSol == 128
\* number of transfer() calls made in one run
MaxTransfers == 2
\* number of createWallet/login/logout calls made in one run
MaxOps == 2
\* number of getBalance reads dispatched in one run
MaxFetches == 3
MaxBalances == 60

----------------------------------------------------------------------------
(* JavaScript values: null, undefined, strings, Error objects, plain       *)
(* objects (with or without a `message` property), numbers                 *)

Null == [t |-> "null"]
Undefined == [t |-> "undefined"]
Str(s) == [t |-> "string", s |-> s]
\* new Error(message)
Err(message) == [t |-> "Error", message |-> message]
\* { message: m } for a JavaScript value m
ObjMsg(m) == [t |-> "object", hasMessage |-> TRUE, message |-> m]
\* an object without a `message` property, e.g. { code: 4001 }
ObjPlain == [t |-> "object", hasMessage |-> FALSE]
\* a number, with its decimal rendering
Num(digits) == [t |-> "number", s |-> digits]
\* true or false, with its rendering
Bool(b) == [t |-> "boolean", s |-> IF b THEN <<"true">> ELSE <<"false">>]

\* the argument of a call: none before the first call
NoCall == [called |-> FALSE]
Call(x) == [called |-> TRUE, arg |-> x]

\* String(v)
JSString(v) ==
    CASE v.t = "string"    -> v.s
      [] v.t = "null"      -> <<"null">>
      [] v.t = "undefined" -> <<"undefined">>
      [] v.t = "number"    -> v.s
      [] v.t = "boolean"   -> v.s
      [] v.t = "Error"     -> <<"Error: ">> \o v.message
      [] OTHER             -> <<"[object Object]">>

\* all sequences over S of length at most n
SeqUpTo(S, n) == UNION {[1..k -> S] : k \in 0..n}

----------------------------------------------------------------------------
(* lib/errors: ERROR_MAPPINGS and transformError *)

StringPattern(text, message) ==
    [isRegExp |-> FALSE, text |-> text, alts |-> <<>>, global |-> FALSE,
     message |-> message]

RegExpPattern(alts, global, message) ==
    [isRegExp |-> TRUE, text |-> <<>>, alts |-> alts, global |-> global,
     message |-> message]

\* /ECONNREFUSED|ETIMEDOUT|ENOTFOUND/ with the global flag: a mutation
NetworkRegExpGlobal ==
    RegExpPattern(<< <<"ECONNREFUSED">>, <<"ETIMEDOUT">>, <<"ENOTFOUND">> >>, TRUE,
                  <<"Unable to connect to the server. Please try again later.">>)

\* /ECONNREFUSED|ETIMEDOUT|ENOTFOUND/ : a literal without flags
NetworkRegExp ==
    RegExpPattern(<< <<"ECONNREFUSED">>, <<"ETIMEDOUT">>, <<"ENOTFOUND">> >>, FALSE,
                  <<"Unable to connect to the server. Please try again later.">>)

P33 == "passkeyPublicKey must be exactly 33 bytes"
Got0 == ", got 0"

PasskeyAbsentMessage ==
    <<"Passkey data not found. Please create a new wallet instead of logging in.">>
PasskeyMalformedMessage ==
    <<"Invalid passkey data. Please try creating a new wallet.">>
FallbackMessage == <<"An unexpected error occurred.">>

\* the ordered rule list, in source order
ERROR_MAPPINGS ==
    << StringPattern(<<"NotAllowedError">>, <<"Passkey operation was cancelled or not allowed.">>),
       StringPattern(<<"InvalidStateError">>, <<"A passkey already exists for this device.">>),
       StringPattern(<<"NotSupportedError">>, <<"Passkeys are not supported on this device or browser.">>),
       StringPattern(<<"SecurityError">>, <<"Security error. Please ensure you are using HTTPS.">>),
       StringPattern(<<"AbortError">>, <<"The operation was aborted. Please try again.">>),
       StringPattern(<<"ConstraintError">>, <<"The passkey does not meet the required constraints.">>),
       StringPattern(<<"load failed">>, <<"Failed to connect to Lazorkit services. Please try again.">>),
       StringPattern(<<"Load failed">>, <<"Failed to connect to Lazorkit services. Please try again.">>),
       StringPattern(<<"NetworkError">>, <<"Network error. Please check your connection.">>),
       StringPattern(<<"Failed to fetch">>, <<"Network error. Please check your connection.">>),
       NetworkRegExp,
       StringPattern(<<"timeout">>, <<"Request timed out. Please try again.">>),
       StringPattern(<<"CORS">>, <<"Connection blocked. Please try again.">>),
       StringPattern(<<P33, Got0>>, PasskeyAbsentMessage),
       StringPattern(<<P33>>, PasskeyMalformedMessage),
       StringPattern(<<"paymaster">>, <<"Paymaster service unavailable. Please try again later.">>),
       StringPattern(<<"smart wallet">>, <<"Smart wallet operation failed. Please try again.">>),
       StringPattern(<<"Transaction simulation failed">>,
                     <<"Transaction simulation failed", ". Please check your inputs.">>),
       StringPattern(<<"Insufficient funds">>, <<"Insufficient funds", " for this transaction.">>),
       StringPattern(<<"Blockhash not found">>, <<"Transaction expired. Please try again.">>),
       StringPattern(<<"Account not found">>, <<"The specified account was not found.">>),
       StringPattern(<<"Session expired">>, <<"Your session has expired. Please log in again.">>),
       StringPattern(<<"Invalid session">>, <<"Invalid session", ". Please log in again.">>),
       StringPattern(<<"Wallet not connected">>, <<"Please connect your wallet first.">>),
       StringPattern(<<"User rejected">>, <<"The request was rejected.">>) >>

\* String.prototype.includes: pat occurs in s as a contiguous run
Includes(s, pat) ==
    \E i \in 0..(Len(s) - Len(pat)) : SubSeq(s, i + 1, i + Len(pat)) = pat

\* the alternatives of re (by index) that match s at 0-based position i
AltsAt(re, s, i) ==
    {k \in 1..Len(re.alts) :
        /\ i + Len(re.alts[k]) <= Len(s)
        /\ SubSeq(s, i + 1, i + Len(re.alts[k])) = re.alts[k]}

\* RegExp.prototype.test on a RegExp object whose lastIndex is li: without the
\* global flag the search starts at 0 and lastIndex is left alone; with it the
\* search starts at lastIndex, which becomes the end of the match, or 0 when
\* there is none.  The match is the leftmost one, by the first alternative.
RegExpTest(re, li, s) ==
    LET from  == IF re.global THEN li ELSE 0
        hits  == {i \in from..Len(s) : AltsAt(re, s, i) # {}}
        first == CHOOSE i \in hits : \A j \in hits : i <= j
        alt   == CHOOSE k \in AltsAt(re, s, first) :
                     \A m \in AltsAt(re, s, first) : k <= m
    IN  IF hits = {}
        THEN [matched |-> FALSE, lastIndex |-> IF re.global THEN 0 ELSE li]
        ELSE [matched |-> TRUE,
              lastIndex |-> IF re.global THEN first + Len(re.alts[alt]) ELSE li]

Whitespace == {" "}

RECURSIVE TrimStart(_)
TrimStart(s) ==
    IF s # <<>> /\ Head(s) \in Whitespace THEN TrimStart(Tail(s)) ELSE s

RECURSIVE TrimEnd(_)
TrimEnd(s) ==
    IF s # <<>> /\ s[Len(s)] \in Whitespace
    THEN TrimEnd(SubSeq(s, 1, Len(s) - 1)) ELSE s

\* String.prototype.trim
Trim(s) == TrimEnd(TrimStart(s))

\* lines 136-147: the message string of a non-nullish error, or Undefined
\* when the value has none (the early return of line 146)
ExtractMessage(error) ==
    CASE error.t = "Error"  -> Str(error.message)
      [] error.t = "string" -> Str(error.s)
      [] error.t = "object" /\ error.hasMessage -> Str(JSString(error.message))
      [] OTHER -> Undefined

\* the for-loop of lines 150-160 that never returns early: the last matching
\* rule wins (a mutation)
RECURSIVE ScanRulesLastWins(_, _, _)
ScanRulesLastWins(i, errorMessage, li) ==
    IF i > Len(ERROR_MAPPINGS)
    THEN [matched |-> FALSE, message |-> <<>>, lastIndex |-> li]
    ELSE LET rule == ERROR_MAPPINGS[i]
             t    == IF rule.isRegExp
                     THEN RegExpTest(rule, li, errorMessage)
                     ELSE [matched |-> Includes(errorMessage, rule.text),
                           lastIndex |-> li]
             rest == ScanRulesLastWins(i + 1, errorMessage, t.lastIndex)
         IN  IF t.matched /\ ~rest.matched
             THEN [matched |-> TRUE, message |-> rule.message,
                   lastIndex |-> rest.lastIndex]
             ELSE rest

\* the for-loop of lines 150-160 from rule i on: the message of the first rule
\* whose pattern occurs in errorMessage, threading the RegExp's lastIndex
RECURSIVE ScanRules(_, _, _)
ScanRules(i, errorMessage, li) ==
    IF i > Len(ERROR_MAPPINGS)
    THEN [matched |-> FALSE, message |-> <<>>, lastIndex |-> li]
    ELSE LET rule == ERROR_MAPPINGS[i]
             t    == IF rule.isRegExp
                     THEN RegExpTest(rule, li, errorMessage)
                     ELSE [matched |-> Includes(errorMessage, rule.text),
                           lastIndex |-> li]
         IN  IF t.matched
             THEN [matched |-> TRUE, message |-> rule.message,
                   lastIndex |-> t.lastIndex]
             ELSE ScanRules(i + 1, errorMessage, t.lastIndex)

\* transformError without the "|| fallback" of line 164 (a mutation)
transformErrorCallNoFallback(error, li) ==
    IF error.t \in {"null", "undefined"}
    THEN [result |-> FallbackMessage, lastIndex |-> li]
    ELSE LET m == ExtractMessage(error)
         IN  IF m = Undefined
             THEN [result |-> FallbackMessage, lastIndex |-> li]
             ELSE LET r == ScanRules(1, m.s, li)
                  IN  IF r.matched
                      THEN [result |-> r.message, lastIndex |-> r.lastIndex]
                      ELSE [result |-> Trim(m.s), lastIndex |-> r.lastIndex]

\* one call of transformError(error) with the RegExp's lastIndex at li: the
\* returned string and the lastIndex the call leaves behind
transformErrorCall(error, li) ==
    IF error.t \in {"null", "undefined"}
    THEN [result |-> FallbackMessage, lastIndex |-> li]
    ELSE LET m == ExtractMessage(error)
         IN  IF m = Undefined
             THEN [result |-> FallbackMessage, lastIndex |-> li]
             ELSE LET r == ScanRules(1, m.s, li)
                  IN  IF r.matched
                      THEN [result |-> r.message, lastIndex |-> r.lastIndex]
                      ELSE [result |-> IF Trim(m.s) = <<>> THEN FallbackMessage
                                       ELSE Trim(m.s),
                            lastIndex |-> r.lastIndex]

\* transformError(error) as the hooks call it (lastIndex is 0: see C10)
transformError(error) == transformErrorCall(error, 0).result

----------------------------------------------------------------------------
(* JavaScript numbers.  A positive Number is an IEEE-754 double m * 2^e with *)
(* m an integer of at most 53 bits.  Integers wider than 31 bits are held as *)
(* sequences of 15-bit limbs, most significant first (<<>> is 0).  Amounts   *)
(* are far from the subnormal and overflow ranges, which are not modelled.   *)

LAMPORTS_PER_SOL == 1000000000

MantissaBits == 53

LimbBits == 15
Base == 2 ^ LimbBits

RECURSIVE StripZeros(_)
StripZeros(b) == IF b # <<>> /\ Head(b) = 0 THEN StripZeros(Tail(b)) ELSE b

RECURSIVE NatOfInt(_)
NatOfInt(n) == IF n = 0 THEN <<>> ELSE Append(NatOfInt(n \div Base), n % Base)

RECURSIVE IntOfNat(_)
IntOfNat(b) ==
    IF b = <<>> THEN 0
    ELSE Base * IntOfNat(SubSeq(b, 1, Len(b) - 1)) + b[Len(b)]

RECURSIVE BitLenInt(_)
BitLenInt(n) == IF n = 0 THEN 0 ELSE 1 + BitLenInt(n \div 2)

BitLen(b) == IF b = <<>> THEN 0 ELSE LimbBits * (Len(b) - 1) + BitLenInt(b[1])

IsOdd(b) == b # <<>> /\ b[Len(b)] % 2 = 1

ShiftLimbs(b, j) == IF b = <<>> THEN <<>> ELSE b \o [i \in 1..j |-> 0]

\* b + 1
RECURSIVE Increment(_)
Increment(b) ==
    IF b = <<>> THEN <<1>>
    ELSE IF b[Len(b)] < Base - 1
         THEN SubSeq(b, 1, Len(b) - 1) \o <<b[Len(b)] + 1>>
         ELSE Increment(SubSeq(b, 1, Len(b) - 1)) \o <<0>>

\* a + b, from the least significant limb with a carry
RECURSIVE AddFrom(_, _, _, _)
AddFrom(a, b, i, carry) ==
    IF i >= Len(a) /\ i >= Len(b)
    THEN IF carry = 0 THEN <<>> ELSE <<carry>>
    ELSE LET x == IF i < Len(a) THEN a[Len(a) - i] ELSE 0
             y == IF i < Len(b) THEN b[Len(b) - i] ELSE 0
             t == x + y + carry
         IN  AddFrom(a, b, i + 1, t \div Base) \o <<t % Base>>

Add(a, b) == StripZeros(AddFrom(a, b, 0, 0))

\* b * m for a single limb 0 <= m < Base
RECURSIVE MulLimbFrom(_, _, _, _)
MulLimbFrom(b, m, i, carry) ==
    IF i = 0 THEN IF carry = 0 THEN <<>> ELSE <<carry>>
    ELSE LET t == b[i] * m + carry
         IN  MulLimbFrom(b, m, i - 1, t \div Base) \o <<t % Base>>

MulLimb(b, m) == StripZeros(MulLimbFrom(b, m, Len(b), 0))

\* a * c, limb by limb of c
RECURSIVE MulFrom(_, _, _)
MulFrom(a, c, i) ==
    IF i > Len(c) THEN <<>>
    ELSE Add(ShiftLimbs(MulLimb(a, c[i]), Len(c) - i), MulFrom(a, c, i + 1))

Mul(a, c) == MulFrom(a, c, 1)

\* long division of b by 0 < d <= Base: quotient and remainder
RECURSIVE DivSmallFrom(_, _, _, _, _)
DivSmallFrom(b, d, i, q, r) ==
    IF i > Len(b) THEN [q |-> StripZeros(q), r |-> r]
    ELSE LET t == Base * r + b[i]
         IN  DivSmallFrom(b, d, i + 1, Append(q, t \div d), t % d)

DivSmall(b, d) == DivSmallFrom(b, d, 1, <<>>, 0)

\* b divided by 10^k: the quotient, and whether any remainder was dropped
RECURSIVE DivPow10(_, _, _)
DivPow10(b, k, inexact) ==
    IF k = 0 THEN [q |-> b, inexact |-> inexact]
    ELSE LET d == DivSmall(b, 10)
         IN  DivPow10(d.q, k - 1, inexact \/ d.r # 0)

\* b divided by 2^k: the quotient, and whether any remainder was dropped
ShiftRightBits(b, k) ==
    LET j    == k \div LimbBits
        kept == IF j >= Len(b) THEN <<>> ELSE SubSeq(b, 1, Len(b) - j)
        lost == \E i \in 1..Len(b) : i > Len(b) - j /\ b[i] # 0
        d    == DivSmall(kept, 2 ^ (k % LimbBits))
    IN  [q |-> d.q, inexact |-> lost \/ d.r # 0]

\* the double nearest to (n + f) * 2^e, ties to even, where the integer n
\* either has at least MantissaBits + 2 bits or is exact, and 0 <= f < 1 with
\* f # 0 iff inexact
RoundToDouble(n, e, inexact) ==
    IF BitLen(n) <= MantissaBits
    THEN [m |-> n, e |-> e]
    ELSE LET drop  == BitLen(n) - MantissaBits
             s     == ShiftRightBits(n, drop - 1)
             half  == IsOdd(s.q)
             keep  == DivSmall(s.q, 2).q
             below == inexact \/ s.inexact
             up    == half /\ (below \/ IsOdd(keep))
             r     == IF up THEN Increment(keep) ELSE keep
         IN  IF BitLen(r) > MantissaBits
             THEN [m |-> DivSmall(r, 2).q, e |-> e + drop + 1]
             ELSE [m |-> r, e |-> e + drop]

\* the Number denoted by the decimal num / 10^dec, num > 0 (a numeric literal,
\* or parseFloat of the form's text): the nearest double
NumberFromDecimal(num, dec) ==
    LET j == 5 + dec
        d == DivPow10(ShiftLimbs(NatOfInt(num), j), dec, FALSE)
    IN  RoundToDouble(d.q, 0 - LimbBits * j, d.inexact)

\* x * c for a double x > 0 and an integer 0 < c < 2^31 that is exactly a
\* double: the exact product, rounded once
MulNumber(x, c) == RoundToDouble(Mul(x.m, NatOfInt(c)), x.e, FALSE)

\* Math.floor(x) for a double x > 0 whose floor is below 2^31
MathFloor(x) ==
    IF x.e >= 0 THEN IntOfNat(Mul(x.m, NatOfInt(2 ^ x.e)))
    ELSE IntOfNat(ShiftRightBits(x.m, 0 - x.e).q)

\* an amount of SOL given in decimal: num / 10^dec
Dec(num, dec) == [nan |-> FALSE, num |-> num, dec |-> dec]
NaN == [nan |-> TRUE, num |-> 0, dec |-> 0]

\* an integer Number
Int32(n) == [t |-> "number", n |-> n]

\* Math.floor(amount * LAMPORTS_PER_SOL) for amount > 0
ToLamports(amount) ==
    MathFloor(MulNumber(NumberFromDecimal(amount.num, amount.dec),
                        LAMPORTS_PER_SOL))

----------------------------------------------------------------------------
(* lib/validation and hooks/useTransfer: values *)

PUBLIC_KEY_LENGTH == 32

\* a candidate address: its text, whether the text is base-58, and the number
\* of bytes it decodes to
Address(text, base58, bytes) == [text |-> text, base58 |-> base58, bytes |-> bytes]

\* new PublicKey(address) returns (does not throw)
PublicKeyAccepts(address) == address.base58 /\ address.bytes = PUBLIC_KEY_LENGTH

\* lib/validation: isValidSolanaAddress
isValidSolanaAddress(address) ==
    IF address.text = <<>> THEN FALSE ELSE PublicKeyAccepts(address)

initialState ==
    [isSubmitting |-> FALSE, signature |-> Null, error |-> Null, status |-> "idle"]

\* lines 141-146
PendingState ==
    [isSubmitting |-> TRUE, signature |-> Null, error |-> Null, status |-> "pending"]

\* the success state that leaves isSubmitting set (a mutation)
ConfirmedStateStillSubmitting(signature) ==
    [isSubmitting |-> TRUE, signature |-> Str(signature), error |-> Null,
     status |-> "confirmed"]

\* lines 165-170
ConfirmedState(signature) ==
    [isSubmitting |-> FALSE, signature |-> Str(signature), error |-> Null,
     status |-> "confirmed"]

\* a failed state merged into the previous state, leaving its signature (a mutation)
FailedStateMerged(error) ==
    [state EXCEPT !.isSubmitting = FALSE, !.error = Str(error), !.status = "failed"]

\* lines 107-112, 119-124, 131-136, 176-181: the failed state with message `error`
FailedState(error) ==
    [isSubmitting |-> FALSE, signature |-> Null, error |-> Str(error),
     status |-> "failed"]

\* the catch block storing the raw message instead of transformError(err) (a mutation)
CatchStateRaw(err) ==
    FailedState(IF ExtractMessage(err) = Undefined THEN <<>>
                ELSE ExtractMessage(err).s)

\* lines 173-181: the state set by the catch block for the caught value err
CatchState(err) == FailedState(transformError(err))

\* the checks in the order amount, recipient, wallet (a mutation)
FailFastAmountFirst(pubkey, recipient, amount) ==
    IF ~amount.nan /\ amount.num <= 0
    THEN [failed |-> TRUE, throws |-> <<"Amount must be greater than 0">>,
          stored |-> <<"Amount must be greater than 0">>]
    ELSE IF ~isValidSolanaAddress(recipient)
    THEN [failed |-> TRUE, throws |-> <<"Invalid recipient address">>,
          stored |-> transformError(Str(<<"Invalid recipient address">>))]
    ELSE IF pubkey = Null
    THEN [failed |-> TRUE, throws |-> <<"Wallet not connected">>,
          stored |-> transformError(Str(<<"Wallet not connected">>))]
    ELSE [failed |-> FALSE, throws |-> <<>>, stored |-> <<>>]

\* lines 104-138: the three fail-fast checks: whether one fails, the message of
\* the Error it throws and the message it stores
FailFast(pubkey, recipient, amount) ==
    IF pubkey = Null
    THEN [failed |-> TRUE, throws |-> <<"Wallet not connected">>,
          stored |-> transformError(Str(<<"Wallet not connected">>))]
    ELSE IF ~isValidSolanaAddress(recipient)
    THEN [failed |-> TRUE, throws |-> <<"Invalid recipient address">>,
          stored |-> transformError(Str(<<"Invalid recipient address">>))]
    ELSE IF ~amount.nan /\ amount.num <= 0
    THEN [failed |-> TRUE, throws |-> <<"Amount must be greater than 0">>,
          stored |-> <<"Amount must be greater than 0">>]
    ELSE [failed |-> FALSE, throws |-> <<>>, stored |-> <<>>]

\* the promise returned by an async function
Pending == [k |-> "pending"]
Fulfilled(v) == [k |-> "fulfilled", v |-> v]
Rejected(e) == [k |-> "rejected", v |-> e]

\* one transfer(recipient, amount) call: its arguments, the smartWalletPubkey
\* its closure holds, where it stands ("importing": awaiting import();
\* "sent": awaiting signAndSendTransaction; "done"), the lamports of the
\* instruction it built, whether it has called signAndSendTransaction, the
\* value it caught, and the promise it returned
TransferCall(recipient, amount, from, pc, lamports, invoked, caught, promise) ==
    [recipient |-> recipient, amount |-> amount, from |-> from, pc |-> pc,
     lamports |-> lamports, invoked |-> invoked, caught |-> caught,
     promise |-> promise]

----------------------------------------------------------------------------
(* hooks/useTransfer: inputs *)

WalletAddresses == {Str(<<"SmartWallet1111">>)}

Recipients ==
    { Address(<<>>, TRUE, 0),                        \* ""
      Address(<<"not-base58: 0OIl">>, FALSE, 0),     \* characters outside base-58
      Address(<<"Recipient1111">>, TRUE, 32) }       \* a valid address

\* 0, 0.001 and NaN
TransferAmounts == {Dec(0, 0), Dec(1, 3), NaN}

Signatures == {<<"sig123">>, <<"sig456">>}

\* values signAndSendTransaction (or import()) may throw or reject with
ExternalErrors ==
    { Err(<<"Blockhash not found">>),
      Err(<<"Transaction simulation failed", ": ", "Blockhash not found">>),
      Str(<<"User rejected">>),
      Undefined }

\* what BigInt(NaN) throws inside SystemProgram.transfer
BigIntRangeError ==
    Err(<<"The number NaN cannot be converted to a BigInt because it is not an integer">>)

----------------------------------------------------------------------------
(* hooks/useTransfer: operations *)

\* an effect that never returns early (a mutation)
NeverMounted(mountedRef) == FALSE

\* useTransfer.ts line 70, part_005 line 123: if (mountedRef.current) return
AlreadyMounted(mountedRef) == mountedRef

\* lines 69-72, 96: the effect; it starts initStore() once
TransferMountEffect ==
    /\ IF AlreadyMounted(tMountedRef)
       THEN UNCHANGED <<tMountedRef, tInitStore>>
       ELSE tMountedRef' = TRUE /\ tInitStore' = "importing"
    /\ UNCHANGED <<state, smartWalletPubkey, tSubscriptions, storeWallet, calls>>
    /\ UNCHANGED <<errVars, amtVars, lzVars, balVars, pvVars>>

\* lines 75-90: import('@lazorkit/wallet') resolved: read the store, subscribe
TransferInitStoreResumes ==
    /\ tInitStore = "importing"
    /\ tInitStore' = "subscribed"
    /\ smartWalletPubkey' = IF storeWallet # Null THEN storeWallet
                            ELSE smartWalletPubkey
    /\ tSubscriptions' = tSubscriptions + 1
    /\ UNCHANGED <<state, tMountedRef, storeWallet, calls>>
    /\ UNCHANGED <<errVars, amtVars, lzVars, balVars, pvVars>>

\* lines 91-93: the import rejected: logged, nothing subscribed
TransferInitStoreFails ==
    /\ tInitStore = "importing"
    /\ tInitStore' = "failed"
    /\ UNCHANGED <<state, smartWalletPubkey, tMountedRef, tSubscriptions,
                   storeWallet, calls>>
    /\ UNCHANGED <<errVars, amtVars, lzVars, balVars, pvVars>>

\* the wallet store changes its wallet; lines 84-90 run for each subscription
StoreWalletChanges(w) ==
    /\ w # storeWallet
    /\ storeWallet' = w
    /\ smartWalletPubkey' = IF tSubscriptions > 0 THEN w ELSE smartWalletPubkey
    /\ UNCHANGED <<state, tMountedRef, tInitStore, tSubscriptions, calls>>
    /\ UNCHANGED <<errVars, amtVars, lzVars, balVars, pvVars>>

\* lines 103-154: transfer(recipient, amount) up to its first await: the
\* fail-fast checks, the pending state and the instruction.  BigInt(lamports)
\* inside SystemProgram.transfer throws for NaN.
Transfer(recipient, amount) ==
    /\ Len(calls) < MaxTransfers
    /\ LET check == FailFast(smartWalletPubkey, recipient, amount)
       IN  IF check.failed
           THEN /\ state' = FailedState(check.stored)
                /\ calls' = Append(calls,
                       TransferCall(recipient, amount, smartWalletPubkey, "done",
                                    Undefined, FALSE, NoCall,
                                    Rejected(Err(check.throws))))
           ELSE IF amount.nan
           THEN /\ state' = CatchState(BigIntRangeError)
                /\ calls' = Append(calls,
                       TransferCall(recipient, amount, smartWalletPubkey, "done",
                                    Undefined, FALSE, Call(BigIntRangeError),
                                    Rejected(BigIntRangeError)))
           ELSE /\ state' = PendingState
                /\ calls' = Append(calls,
                       TransferCall(recipient, amount, smartWalletPubkey,
                                    "importing", Int32(ToLamports(amount)),
                                    FALSE, NoCall, Pending))
    /\ UNCHANGED <<smartWalletPubkey, tMountedRef, tInitStore, tSubscriptions,
                   storeWallet>>
    /\ UNCHANGED <<errVars, amtVars, lzVars, balVars, pvVars>>

\* lines 157-162: the import resolved; signAndSendTransaction is called and
\* returns a promise
TransferSubmits(i) ==
    /\ calls[i].pc = "importing"
    /\ calls' = [calls EXCEPT ![i].pc = "sent", ![i].invoked = TRUE]
    /\ UNCHANGED <<state, smartWalletPubkey, tMountedRef, tInitStore,
                   tSubscriptions, storeWallet>>
    /\ UNCHANGED <<errVars, amtVars, lzVars, balVars, pvVars>>

\* lines 157-162, 173-183: signAndSendTransaction throws synchronously
TransferSubmitThrows(i, e) ==
    /\ calls[i].pc = "importing"
    /\ state' = CatchState(e)
    /\ calls' = [calls EXCEPT ![i].pc = "done", ![i].invoked = TRUE,
                              ![i].caught = Call(e), ![i].promise = Rejected(e)]
    /\ UNCHANGED <<smartWalletPubkey, tMountedRef, tInitStore, tSubscriptions,
                   storeWallet>>
    /\ UNCHANGED <<errVars, amtVars, lzVars, balVars, pvVars>>

\* lines 157, 173-183: import('@lazorkit/wallet') rejects
TransferImportRejects(i, e) ==
    /\ calls[i].pc = "importing"
    /\ state' = CatchState(e)
    /\ calls' = [calls EXCEPT ![i].pc = "done", ![i].caught = Call(e),
                              ![i].promise = Rejected(e)]
    /\ UNCHANGED <<smartWalletPubkey, tMountedRef, tInitStore, tSubscriptions,
                   storeWallet>>
    /\ UNCHANGED <<errVars, amtVars, lzVars, balVars, pvVars>>

\* lines 160-172: signAndSendTransaction resolves with a signature
TransferResolves(i, signature) ==
    /\ calls[i].pc = "sent"
    /\ state' = ConfirmedState(signature)
    /\ calls' = [calls EXCEPT ![i].pc = "done",
                              ![i].promise = Fulfilled(Str(signature))]
    /\ UNCHANGED <<smartWalletPubkey, tMountedRef, tInitStore, tSubscriptions,
                   storeWallet>>
    /\ UNCHANGED <<errVars, amtVars, lzVars, balVars, pvVars>>

\* lines 160, 173-183: signAndSendTransaction rejects with e
TransferRejects(i, e) ==
    /\ calls[i].pc = "sent"
    /\ state' = CatchState(e)
    /\ calls' = [calls EXCEPT ![i].pc = "done", ![i].caught = Call(e),
                              ![i].promise = Rejected(e)]
    /\ UNCHANGED <<smartWalletPubkey, tMountedRef, tInitStore, tSubscriptions,
                   storeWallet>>
    /\ UNCHANGED <<errVars, amtVars, lzVars, balVars, pvVars>>

\* lines 191-193: reset()
Reset ==
    /\ state' = initialState
    /\ UNCHANGED <<smartWalletPubkey, tMountedRef, tInitStore, tSubscriptions,
                   storeWallet, calls>>
    /\ UNCHANGED <<errVars, amtVars, lzVars, balVars, pvVars>>

----------------------------------------------------------------------------
(* hooks/useLazorkit (src/unnamed/part_005): values and inputs *)

\* the wallet object of the store
Wallet(smartWallet) == [smartWallet |-> smartWallet]

\* the fields of the store's state that the hook reads
SdkState(wallet, sdkLoading, sdkConnecting, error) ==
    [wallet |-> wallet, isLoading |-> sdkLoading, isConnecting |-> sdkConnecting,
     error |-> error]

InitialSdkState == SdkState(Null, FALSE, FALSE, Null)

\* store states: at rest, loading, connecting, connected, failed
SdkStates ==
    { InitialSdkState,
      SdkState(Null, TRUE, FALSE, Null),
      SdkState(Null, FALSE, TRUE, Null),
      SdkState(Wallet(Str(<<"SmartWallet1111">>)), FALSE, FALSE, Null),
      SdkState(Null, FALSE, FALSE, Err(<<"NotAllowedError">>)) }

\* the keys createWallet removes
StaleKeys == {"lazorkit-wallet", "CREDENTIAL_ID", "PUBLIC_KEY", "SMART_WALLET_ADDRESS"}

Actions == {"createWallet", "login", "logout"}

\* values an import, initializeLazorkitStore, setConfig, connect or disconnect
\* may throw or reject with
OpErrors == {Str(<<"Load failed">>)}

\* one createWallet/login/logout call: where it stands ("importProvider":
\* awaiting import(provider); "initImport": inside initializeLazorkitStore,
\* awaiting its import(); "importWallet": awaiting import('@lazorkit/wallet');
\* "settling": awaiting connect()/disconnect(); "done"), what it caught and
\* the promise it returned
Op(kind, pc, caught, promise) ==
    [kind |-> kind, pc |-> pc, caught |-> caught, promise |-> promise]

\* lines 112-113: state whose setter is never called
isRestoring == FALSE
hasAttemptedRestore == TRUE

\* line 157: the isLoading the hook returns
lazorkitIsLoading == sdkIsLoading \/ isOperating \/ isRestoring

\* a catch block that rethrows (a mutation)
SettledPromiseRethrows(threw) ==
    IF threw THEN [k |-> "rejected"] ELSE Fulfilled(Undefined)

\* lines 181-188, 203-211, 223-229: the catch block swallows what it caught,
\* so the async function returns undefined
SettledPromise(threw) == Fulfilled(Undefined)

\* the busy flag reset only when nothing was caught (a mutation)
SettledIsOperatingOnSuccess(threw) == IF threw THEN isOperating ELSE FALSE

\* lines 185-187, 208-210, 226-228: the finally block: setIsOperating(false)
SettledIsOperating(threw) == FALSE

----------------------------------------------------------------------------
(* hooks/useLazorkit: operations *)

\* lines 122-124, 153: the effect; it starts initStore() once
LazorkitMountEffect ==
    /\ IF AlreadyMounted(lzMountedRef)
       THEN UNCHANGED <<lzMountedRef, lzInitStore>>
       ELSE lzMountedRef' = TRUE /\ lzInitStore' = "importing"
    /\ UNCHANGED <<localError, isOperating, walletAddress, isConnected,
                   sdkIsLoading, lzSubscriptions, sdkState, sdkConfigured,
                   localStorage, ops>>
    /\ UNCHANGED <<errVars, amtVars, trVars, balVars, pvVars>>

\* the extracted message published as it is (a mutation)
PublishedErrorRaw(error) ==
    IF ExtractMessage(error) = Undefined THEN Str(FallbackMessage)
    ELSE ExtractMessage(error)

\* lines 146, 183, 206, 225: the argument of setLocalError for a store error
\* or a caught value
PublishedError(error) == Str(transformError(error))

\* the projection that ignores isConnecting (a mutation)
ProjectSdkStateLoadingOnly(s) ==
    /\ walletAddress' = IF s.wallet = Null THEN Null ELSE s.wallet.smartWallet
    /\ isConnected' = (s.wallet # Null)
    /\ sdkIsLoading' = s.isLoading

\* lines 136-138, 142-144: the hook's projection of a store state
ProjectSdkState(s) ==
    /\ walletAddress' = IF s.wallet = Null THEN Null ELSE s.wallet.smartWallet
    /\ isConnected' = (s.wallet # Null)
    /\ sdkIsLoading' = (s.isLoading \/ s.isConnecting)

\* lines 128-148: the import resolved: read the store, project, subscribe
LazorkitInitStoreResumes ==
    /\ lzInitStore = "importing"
    /\ lzInitStore' = "subscribed"
    /\ ProjectSdkState(sdkState)
    /\ lzSubscriptions' = lzSubscriptions + 1
    /\ UNCHANGED <<localError, isOperating, lzMountedRef, sdkState,
                   sdkConfigured, localStorage, ops>>
    /\ UNCHANGED <<errVars, amtVars, trVars, balVars, pvVars>>

\* lines 149-151: the import rejected: logged, nothing subscribed
LazorkitInitStoreFails ==
    /\ lzInitStore = "importing"
    /\ lzInitStore' = "failed"
    /\ UNCHANGED <<localError, isOperating, walletAddress, isConnected,
                   sdkIsLoading, lzMountedRef, lzSubscriptions, sdkState,
                   sdkConfigured, localStorage, ops>>
    /\ UNCHANGED <<errVars, amtVars, trVars, balVars, pvVars>>

\* a callback that mirrors the store's error, null included (a mutation)
NotifiedErrorMirrored(s, current) ==
    IF s.error # Null THEN PublishedError(s.error) ELSE Null

\* lines 145-147: the published error after a notification of store state s
NotifiedError(s, current) ==
    IF s.error # Null THEN PublishedError(s.error) ELSE current

\* the store changes state; lines 141-148 run for each subscription
SdkStoreChanges(s) ==
    /\ s # sdkState
    /\ sdkState' = s
    /\ IF lzSubscriptions > 0
       THEN /\ ProjectSdkState(s)
            /\ localError' = NotifiedError(s, localError)
       ELSE UNCHANGED <<walletAddress, isConnected, sdkIsLoading, localError>>
    /\ UNCHANGED <<isOperating, lzMountedRef, lzInitStore, lzSubscriptions,
                   sdkConfigured, localStorage, ops>>
    /\ UNCHANGED <<errVars, amtVars, trVars, balVars, pvVars>>

\* every action clearing the keys (a mutation)
RemovedKeysEveryAction(kind) == StaleKeys

\* createWallet clearing the store's own key only (a mutation)
RemovedKeysStoreOnly(kind) ==
    IF kind = "createWallet" THEN {"lazorkit-wallet"} ELSE {}

\* lines 167-173: the keys an action removes before its first await
RemovedKeys(kind) == IF kind = "createWallet" THEN StaleKeys ELSE {}

\* lines 162-176, 193-199, 216-221: createWallet(), login() or logout() up to
\* its first await
LazorkitCall(kind) ==
    /\ Len(ops) < MaxOps
    /\ localError' = Null
    /\ isOperating' = TRUE
    /\ localStorage' = [k \in (DOMAIN localStorage) \ RemovedKeys(kind) |->
                            localStorage[k]]
    /\ ops' = Append(ops, Op(kind, IF kind = "logout" THEN "importWallet"
                                   ELSE "importProvider", NoCall, Pending))
    /\ UNCHANGED <<walletAddress, isConnected, sdkIsLoading, lzMountedRef,
                   lzInitStore, lzSubscriptions, sdkState, sdkConfigured>>
    /\ UNCHANGED <<errVars, amtVars, trVars, balVars, pvVars>>

\* lines 163-172, 181-187: createWallet() where localStorage.removeItem throws:
\* the catch and finally blocks run before createWallet returns
CreateWalletStorageThrows(e) ==
    /\ Len(ops) < MaxOps
    /\ localError' = PublishedError(e)
    /\ isOperating' = SettledIsOperating(TRUE)
    /\ ops' = Append(ops, Op("createWallet", "done", Call(e),
                          SettledPromise(TRUE)))
    /\ UNCHANGED <<walletAddress, isConnected, sdkIsLoading, lzMountedRef,
                   lzInitStore, lzSubscriptions, sdkState, sdkConfigured,
                   localStorage>>
    /\ UNCHANGED <<errVars, amtVars, trVars, balVars, pvVars>>

\* lines 175-176, 197-198: import(provider) resolved; initializeLazorkitStore()
\* runs up to its own import (provider.tsx line 38)
LazorkitProviderImported(i) ==
    /\ ops[i].pc = "importProvider"
    /\ ops' = [ops EXCEPT ![i].pc = "initImport"]
    /\ UNCHANGED <<localError, isOperating, walletAddress, isConnected,
                   sdkIsLoading, lzMountedRef, lzInitStore, lzSubscriptions,
                   sdkState, sdkConfigured, localStorage>>
    /\ UNCHANGED <<errVars, amtVars, trVars, balVars, pvVars>>

\* provider.tsx lines 38-50, then lines 178, 200: the store is configured and
\* the action goes on to import('@lazorkit/wallet')
LazorkitStoreInitialized(i) ==
    /\ ops[i].pc = "initImport"
    /\ sdkConfigured' = TRUE
    /\ ops' = [ops EXCEPT ![i].pc = "importWallet"]
    /\ UNCHANGED <<localError, isOperating, walletAddress, isConnected,
                   sdkIsLoading, lzMountedRef, lzInitStore, lzSubscriptions,
                   sdkState, localStorage>>
    /\ UNCHANGED <<errVars, amtVars, trVars, balVars, pvVars>>

\* lines 178-180, 200-202, 220-222: the import resolved; connect() or
\* disconnect() is called and returns a promise
LazorkitConnects(i) ==
    /\ ops[i].pc = "importWallet"
    /\ ops' = [ops EXCEPT ![i].pc = "settling"]
    /\ UNCHANGED <<localError, isOperating, walletAddress, isConnected,
                   sdkIsLoading, lzMountedRef, lzInitStore, lzSubscriptions,
                   sdkState, sdkConfigured, localStorage>>
    /\ UNCHANGED <<errVars, amtVars, trVars, balVars, pvVars>>

\* lines 181-187, 203-210, 223-228: an awaited import, initializeLazorkitStore,
\* connect or disconnect rejects, or setConfig, connect or disconnect throws
\* when called: the catch block, then the finally block
LazorkitOpFails(i, e) ==
    /\ ops[i].pc # "done"
    /\ localError' = PublishedError(e)
    /\ isOperating' = SettledIsOperating(TRUE)
    /\ ops' = [ops EXCEPT ![i].pc = "done", ![i].caught = Call(e),
                          ![i].promise = SettledPromise(TRUE)]
    /\ UNCHANGED <<walletAddress, isConnected, sdkIsLoading, lzMountedRef,
                   lzInitStore, lzSubscriptions, sdkState, sdkConfigured,
                   localStorage>>
    /\ UNCHANGED <<errVars, amtVars, trVars, balVars, pvVars>>

\* lines 180, 202, 222, then the finally block: connect()/disconnect() resolved
LazorkitOpResolves(i) ==
    /\ ops[i].pc = "settling"
    /\ isOperating' = SettledIsOperating(FALSE)
    /\ ops' = [ops EXCEPT ![i].pc = "done", ![i].promise = SettledPromise(FALSE)]
    /\ UNCHANGED <<localError, walletAddress, isConnected, sdkIsLoading,
                   lzMountedRef, lzInitStore, lzSubscriptions, sdkState,
                   sdkConfigured, localStorage>>
    /\ UNCHANGED <<errVars, amtVars, trVars, balVars, pvVars>>

\* clearError() that also drops the busy flag (a mutation)
ClearErrorAndBusy ==
    /\ localError' = Null
    /\ isOperating' = FALSE
    /\ UNCHANGED <<walletAddress, isConnected, sdkIsLoading,
                   lzMountedRef, lzInitStore, lzSubscriptions, sdkState,
                   sdkConfigured, localStorage, ops>>
    /\ UNCHANGED <<errVars, amtVars, trVars, balVars, pvVars>>

\* lines 234-236: clearError()
ClearError ==
    /\ localError' = Null
    /\ UNCHANGED <<isOperating, walletAddress, isConnected, sdkIsLoading,
                   lzMountedRef, lzInitStore, lzSubscriptions, sdkState,
                   sdkConfigured, localStorage, ops>>
    /\ UNCHANGED <<errVars, amtVars, trVars, balVars, pvVars>>

----------------------------------------------------------------------------
(* lib/lazorkit/provider.tsx: LazorkitProvider *)

\* line 57, 68, 72: the isReady the provider publishes
isReady == providerInit \in {"ready", "failed"}

\* lines 60-76: the effect; it starts init() once, which calls
\* initializeLazorkitStore() up to its import (line 38)
ProviderMountEffect ==
    /\ IF providerInit = "idle"
       THEN providerInit' = "importing"
       ELSE UNCHANGED providerInit
    /\ UNCHANGED <<errVars, amtVars, trVars, lzVars, balVars>>

\* lines 38-50, 66-68: the import resolved; the store is configured
ProviderStoreInitialized ==
    /\ providerInit = "importing"
    /\ providerInit' = "ready"
    /\ sdkConfigured' = TRUE
    /\ UNCHANGED <<localError, isOperating, walletAddress, isConnected,
                   sdkIsLoading, lzMountedRef, lzInitStore, lzSubscriptions,
                   sdkState, localStorage, ops>>
    /\ UNCHANGED <<errVars, amtVars, trVars, balVars>>

\* lines 69-73: initializeLazorkitStore() rejected: logged, isReady set anyway
ProviderInitFails ==
    /\ providerInit = "importing"
    /\ providerInit' = "failed"
    /\ UNCHANGED <<errVars, amtVars, trVars, lzVars, balVars>>

\* the SDK persists the wallet identifiers (as it does for a connected wallet)
SdkPersists ==
    /\ localStorage # [k \in StaleKeys |-> Len(ops)]
    /\ localStorage' = [k \in StaleKeys |-> Len(ops)]
    /\ UNCHANGED <<localError, isOperating, walletAddress, isConnected,
                   sdkIsLoading, lzMountedRef, lzInitStore, lzSubscriptions,
                   sdkState, sdkConfigured, ops>>
    /\ UNCHANGED <<errVars, amtVars, trVars, balVars, pvVars>>

----------------------------------------------------------------------------
(* hooks/useBalance: values and inputs *)

\* one getBalance read: the address its fetchBalance closes over and the
\* promise getBalance returned
Fetch(address, promise) == [address |-> address, promise |-> promise]

\* the running interval timer and the address its callback closes over
Timer(address) == [address |-> address]

\* a cleanup that leaves the timer running (a mutation)
ClearIntervalNothing(ts, ref) == ts

\* lines 90-93: clearInterval(intervalRef.current) when the ref holds a
\* timer: that timer is taken out of the running timers ts
RECURSIVE ClearInterval(_, _)
ClearInterval(ts, ref) ==
    IF ref = Null \/ ts = <<>> THEN ts
    ELSE IF Head(ts) = ref THEN Tail(ts)
    ELSE <<Head(ts)>> \o ClearInterval(Tail(ts), ref)

\* lines 85-87: setInterval(fetchBalance, REFRESH_INTERVAL) when the address
\* is truthy
SetInterval(ts, address) ==
    IF address # Null THEN Append(ts, Timer(address)) ELSE ts

\* line 69: lamports / LAMPORTS_PER_SOL, a Number
LamportsToSol(lamports) == NumberFromDecimal(lamports, 9)

\* b * 2^k
ShiftLeftBits(b, k) ==
    ShiftLimbs(MulLimb(b, 2 ^ (k % LimbBits)), k \div LimbBits)

\* a < b for two integers without leading zero limbs
LessNat(a, b) ==
    \/ Len(a) < Len(b)
    \/ /\ Len(a) = Len(b)
       /\ \E i \in 1..Len(a) :
            /\ a[i] < b[i]
            /\ \A j \in 1..(i - 1) : a[j] = b[j]

\* x < y for two doubles x, y >= 0
LessThan(x, y) ==
    LET e0 == IF x.e < y.e THEN x.e ELSE y.e
    IN  LessNat(ShiftLeftBits(x.m, x.e - e0), ShiftLeftBits(y.m, y.e - e0))

DigitChars == <<"0", "1", "2", "3", "4", "5", "6", "7", "8", "9">>

\* the decimal digits of an integer n >= 0, one character each
RECURSIVE DecimalDigits(_)
DecimalDigits(n) ==
    IF n < 10 THEN <<DigitChars[n + 1]>>
    ELSE Append(DecimalDigits(n \div 10), DigitChars[(n % 10) + 1])

\* n written with exactly f digits, n < 10^f
RECURSIVE PaddedDigits(_, _)
PaddedDigits(n, f) ==
    IF f = 0 THEN <<>>
    ELSE Append(PaddedDigits(n \div 10, f - 1), DigitChars[(n % 10) + 1])

\* Number.prototype.toFixed(f) for a double 0 <= x < 10^21 with x * 10^f
\* below 2^31: "let n be an integer for which n / 10^f - x is as close to
\* zero as possible; if there are two such n, pick the larger n"
ToFixed(x, f) ==
    LET scaled == Mul(x.m, NatOfInt(10 ^ f))
        n == IF x.e >= 0
             THEN IntOfNat(ShiftLeftBits(scaled, x.e))
             ELSE IntOfNat(ShiftRightBits(
                      Add(scaled, ShiftLeftBits(<<1>>, 0 - x.e - 1)),
                      0 - x.e).q)
    IN  DecimalDigits(n \div (10 ^ f))
            \o (IF f = 0 THEN <<>> ELSE <<".">> \o PaddedDigits(n % (10 ^ f), f))

\* s.replace(/\.?0+$/, ''): the leftmost match is the run of zeros that ends
\* the text, with the point before it when there is one
ReplaceTrailingZeros(s) ==
    LET run   == {i \in 1..Len(s) : \A j \in i..Len(s) : s[j] = "0"}
        first == CHOOSE i \in run : \A j \in run : i <= j
        start == IF first > 1 /\ s[first - 1] = "." THEN first - 1 ELSE first
    IN  IF run = {} THEN s ELSE SubSeq(s, 1, start - 1)

\* lines 22-26
formatBalance(bal) ==
    IF bal.m = <<>> THEN <<"0">>
    ELSE IF LessThan(bal, NumberFromDecimal(1, 4))
         THEN <<"<", " ", "0", ".", "0", "0", "0", "1">>
         ELSE ReplaceTrailingZeros(ToFixed(bal, 4))

FetchFailedMessage == <<"Failed to fetch balance">>

\* wallet addresses the hook is rendered with: two valid ones and one that
\* PublicKey rejects
BalanceAddresses ==
    { Address(<<"WalletA">>, TRUE, 32),
      Address(<<"WalletB">>, TRUE, 32),
      Address(<<"not-base58: 0OIl">>, FALSE, 0) }

\* balances, in lamports, that getBalance resolves with
BalanceResults == {1000000000, 1500000001}

----------------------------------------------------------------------------
(* hooks/useBalance: operations *)

\* a fetchBalance that reads the address of the previous render (a mutation)
FetchBalanceStale(address, connection) ==
    IF addressProp = Null \/ ~connection
    THEN /\ balance' = Null
         /\ balanceLamports' = Null
         /\ UNCHANGED <<isLoading, balanceError, fetches>>
    ELSE /\ Len(fetches) < MaxFetches
         /\ isLoading' = TRUE
         /\ balanceError' = Null
         /\ fetches' = Append(fetches, Fetch(addressProp, Pending))
         /\ UNCHANGED <<balance, balanceLamports>>

\* lines 54-66: fetchBalance() up to its await, for the address its closure
\* holds and the connection it finds in connectionRef
FetchBalance(address, connection) ==
    IF address = Null \/ address.text = <<>> \/ ~connection
    THEN /\ balance' = Null
         /\ balanceLamports' = Null
         /\ UNCHANGED <<isLoading, balanceError, fetches>>
    ELSE IF ~PublicKeyAccepts(address)
    THEN /\ balanceError' = Str(FetchFailedMessage)
         /\ balance' = Null
         /\ balanceLamports' = Null
         /\ isLoading' = FALSE
         /\ UNCHANGED fetches
    ELSE /\ Len(fetches) < MaxFetches
         /\ isLoading' = TRUE
         /\ balanceError' = Null
         /\ fetches' = Append(fetches, Fetch(address, Pending))
         /\ UNCHANGED <<balance, balanceLamports>>

\* lines 46-51, 81-95: first render with walletAddress = address: the
\* connection effect, then the fetch effect
BalanceMount(address) ==
    /\ balMounted = "no"
    /\ balMounted' = "mounted"
    /\ addressProp' = address
    /\ connectionRef' = TRUE
    /\ FetchBalance(address, TRUE)
    /\ intervalRef' = IF address # Null THEN Timer(address) ELSE Null
    /\ timers' = SetInterval(timers, address)
    /\ UNCHANGED <<errVars, amtVars, trVars, lzVars, pvVars>>

\* lines 81-95: a render with another walletAddress: the cleanup of the fetch
\* effect, then the effect again with the new fetchBalance
BalanceAddressChanges(address) ==
    /\ balMounted = "mounted"
    /\ address # addressProp
    /\ addressProp' = address
    /\ FetchBalance(address, connectionRef)
    /\ intervalRef' = IF address # Null THEN Timer(address) ELSE Null
    /\ timers' = SetInterval(ClearInterval(timers, intervalRef), address)
    /\ UNCHANGED <<connectionRef, balMounted>>
    /\ UNCHANGED <<errVars, amtVars, trVars, lzVars, pvVars>>

\* line 86: a running timer fires and calls the fetchBalance it was given
BalanceTimerFires(k) ==
    /\ FetchBalance(timers[k].address, connectionRef)
    /\ UNCHANGED <<addressProp, connectionRef, intervalRef, timers, balMounted>>
    /\ UNCHANGED <<errVars, amtVars, trVars, lzVars, pvVars>>

\* lines 98-100: refresh() up to its await
BalanceRefresh ==
    /\ balMounted = "mounted"
    /\ FetchBalance(addressProp, connectionRef)
    /\ UNCHANGED <<addressProp, connectionRef, intervalRef, timers, balMounted>>
    /\ UNCHANGED <<errVars, amtVars, trVars, lzVars, pvVars>>

\* lines 66-69, 75-77: getBalance resolves with lamports.  State setters of an
\* unmounted component do nothing.
BalanceFetchResolves(i, lamports) ==
    /\ fetches[i].promise = Pending
    /\ fetches' = [fetches EXCEPT ![i].promise = Fulfilled(Int32(lamports))]
    /\ IF balMounted = "mounted"
       THEN /\ balanceLamports' = Int32(lamports)
            /\ balance' = LamportsToSol(lamports)
            /\ isLoading' = FALSE
            /\ UNCHANGED balanceError
       ELSE UNCHANGED <<balanceLamports, balance, isLoading, balanceError>>
    /\ UNCHANGED <<addressProp, connectionRef, intervalRef, timers, balMounted>>
    /\ UNCHANGED <<errVars, amtVars, trVars, lzVars, pvVars>>

\* lines 66, 70-77: getBalance rejects with e
BalanceFetchRejects(i, e) ==
    /\ fetches[i].promise = Pending
    /\ fetches' = [fetches EXCEPT ![i].promise = Rejected(e)]
    /\ IF balMounted = "mounted"
       THEN /\ balanceError' = Str(FetchFailedMessage)
            /\ balance' = Null
            /\ balanceLamports' = Null
            /\ isLoading' = FALSE
       ELSE UNCHANGED <<balanceLamports, balance, isLoading, balanceError>>
    /\ UNCHANGED <<addressProp, connectionRef, intervalRef, timers, balMounted>>
    /\ UNCHANGED <<errVars, amtVars, trVars, lzVars, pvVars>>

\* lines 48-50, 89-94: unmount: both cleanups
BalanceUnmount ==
    /\ balMounted = "mounted"
    /\ balMounted' = "unmounted"
    /\ intervalRef' = Null
    /\ timers' = ClearInterval(timers, intervalRef)
    /\ connectionRef' = FALSE
    /\ UNCHANGED <<addressProp, balance, balanceLamports, isLoading,
                   balanceError, fetches>>
    /\ UNCHANGED <<errVars, amtVars, trVars, lzVars, pvVars>>

----------------------------------------------------------------------------
(* Inputs of the error normalizer *)

\* the text of every string rule, the RegExp's alternatives, whitespace and
\* text that is part of no pattern
PatternFragments ==
    UNION {{ERROR_MAPPINGS[i].text[k] : k \in 1..Len(ERROR_MAPPINGS[i].text)} :
              i \in 1..Len(ERROR_MAPPINGS)}
    \cup {ERROR_MAPPINGS[i].alts[k][1] :
              i \in {j \in 1..Len(ERROR_MAPPINGS) : ERROR_MAPPINGS[j].isRegExp},
              k \in 1..3}

Fragments == PatternFragments \cup {" ", "other text"}

\* messages matching three rules, and a two-fragment pattern after an earlier rule
CraftedMessages ==
    { <<"timeout", P33, Got0>>, <<P33, Got0, "User rejected">>,
      <<"Transaction simulation failed", ": ", "Blockhash not found">>,
      <<" ", "other text", " ">> }

\* the values without a message string
PlainValues ==
    {Null, Undefined, ObjPlain, Num(<<"42">>), Bool(TRUE), ObjMsg(Null),
     ObjMsg(Undefined)}

\* the values that carry the message m
ValuesOf(m) == {Err(m), Str(m), ObjMsg(Str(m))}

\* repeated calls: messages around the RegExp rule
SeqFragments == {"ECONNREFUSED", "timeout", "other text"}
SeqInputs ==
    {Null, Undefined} \cup {Err(m) : m \in SeqUpTo(SeqFragments, MaxSeqMsgLen)}

----------------------------------------------------------------------------
(* The parts of the state a specification does not exercise stay as created *)

IdleNormalizer ==
    /\ errIn = NoCall
    /\ errOut = Undefined
    /\ prevIn = NoCall
    /\ prevOut = Undefined
    /\ reLastIndex = 0

IdleFormat ==
    /\ fmtLamports = 0
    /\ fmtOut = Undefined

IdleAmount ==
    /\ amountIn = NaN
    /\ lamportsOut = Undefined
    /\ IdleFormat

IdleTransfer ==
    /\ state = initialState
    /\ smartWalletPubkey = Null
    /\ tMountedRef = FALSE
    /\ tInitStore = "idle"
    /\ tSubscriptions = 0
    /\ storeWallet = Null
    /\ calls = <<>>

IdleLazorkit ==
    /\ localError = Null
    /\ isOperating = FALSE
    /\ walletAddress = Null
    /\ isConnected = FALSE
    /\ sdkIsLoading = FALSE
    /\ lzMountedRef = FALSE
    /\ lzInitStore = "idle"
    /\ lzSubscriptions = 0
    /\ sdkState = InitialSdkState
    /\ sdkConfigured = FALSE
    /\ localStorage = [k \in StaleKeys |-> 0]
    /\ ops = <<>>
    /\ providerInit = "idle"

IdleBalance ==
    /\ addressProp = Null
    /\ balance = Null
    /\ balanceLamports = Null
    /\ isLoading = FALSE
    /\ balanceError = Null
    /\ connectionRef = FALSE
    /\ intervalRef = Null
    /\ timers = <<>>
    /\ balMounted = "no"
    /\ fetches = <<>>

----------------------------------------------------------------------------
(* Specification SpecNormalizer: one call of transformError on any input *)

InitNormalizer ==
    /\ \/ \E x \in PlainValues : errIn = Call(x)
       \/ \E n \in 0..MaxMsgLen : \E m \in [1..n -> Fragments] :
              \E x \in ValuesOf(m) : errIn = Call(x)
       \/ \E m \in CraftedMessages : \E x \in ValuesOf(m) : errIn = Call(x)
    /\ errOut = Undefined
    /\ prevIn = NoCall
    /\ prevOut = Undefined
    /\ reLastIndex = 0
    /\ IdleAmount
    /\ IdleTransfer
    /\ IdleLazorkit
    /\ IdleBalance

TransformErrorReturn ==
    /\ errOut = Undefined
    /\ LET r == transformErrorCall(errIn.arg, reLastIndex)
       IN  /\ errOut' = Str(r.result)
           /\ reLastIndex' = r.lastIndex
    /\ UNCHANGED <<errIn, prevIn, prevOut, amtVars, trVars, lzVars, balVars, pvVars>>

NextNormalizer == TransformErrorReturn

SpecNormalizer == InitNormalizer /\ [][NextNormalizer]_vars

----------------------------------------------------------------------------
(* Specification SpecNormalizerCalls: any sequence of transformError calls *)

InitNormalizerCalls ==
    /\ IdleNormalizer
    /\ IdleAmount
    /\ IdleTransfer
    /\ IdleLazorkit
    /\ IdleBalance

TransformErrorCall(x) ==
    /\ LET r == transformErrorCall(x, reLastIndex)
       IN  /\ errOut' = Str(r.result)
           /\ reLastIndex' = r.lastIndex
    /\ errIn' = Call(x)
    /\ prevIn' = errIn
    /\ prevOut' = errOut
    /\ UNCHANGED <<amtVars, trVars, lzVars, balVars, pvVars>>

NextNormalizerCalls == \E x \in SeqInputs : TransformErrorCall(x)

SpecNormalizerCalls == InitNormalizerCalls /\ [][NextNormalizerCalls]_vars

----------------------------------------------------------------------------
(* Specification SpecAmount: the lamports of the transfer instruction, for   *)
(* any amount that passes the `amount <= 0` check                            *)

\* amounts named by the documentation and the form: 0.1, 0.001, 1.001 and
\* 0.0000000015 SOL
NamedAmounts == {Dec(1, 1), Dec(1, 3), Dec(1001, 3), Dec(15, 10)}

InitAmount ==
    /\ \/ \E n \in 1..MaxNanoSol : amountIn = Dec(n, 9)
       \/ amountIn \in NamedAmounts
    /\ lamportsOut = Undefined
    /\ IdleFormat
    /\ IdleNormalizer
    /\ IdleTransfer
    /\ IdleLazorkit
    /\ IdleBalance

\* line 153: lamports: Math.floor(amount * LAMPORTS_PER_SOL)
BuildInstruction ==
    /\ lamportsOut = Undefined
    /\ lamportsOut' = Int32(ToLamports(amountIn))
    /\ UNCHANGED <<amountIn, fmtLamports, fmtOut, errVars, trVars, lzVars, balVars, pvVars>>

NextAmount == BuildInstruction

SpecAmount == InitAmount /\ [][NextAmount]_vars

----------------------------------------------------------------------------
(* Specification SpecFormat: the text WalletBalance shows for a balance of   *)
(* L lamports, L / LAMPORTS_PER_SOL SOL as useBalance computes it            *)

\* balances the documentation and the component's cases name: 0, one lamport,
\* both sides of 0.0001 SOL, 1.23 SOL, 1 SOL, 0.123456789 SOL and 0.99999 SOL
NamedBalances ==
    {0, 1, 99999, 100000, 1230000000, 1000000000, 123456789, 999990000}

InitFormat ==
    /\ fmtLamports \in NamedBalances \cup {k * 12345679 : k \in 1..MaxBalances}
    /\ fmtOut = Undefined
    /\ amountIn = NaN
    /\ lamportsOut = Undefined
    /\ IdleNormalizer
    /\ IdleTransfer
    /\ IdleLazorkit
    /\ IdleBalance

\* part_004 line 65: formatBalance(balance), balance from useBalance.ts line 69
FormatBalance ==
    /\ fmtOut = Undefined
    /\ fmtOut' = Str(formatBalance(LamportsToSol(fmtLamports)))
    /\ UNCHANGED <<amountIn, lamportsOut, fmtLamports, errVars, trVars, lzVars,
                   balVars, pvVars>>

NextFormat == FormatBalance

SpecFormat == InitFormat /\ [][NextFormat]_vars

----------------------------------------------------------------------------
(* Specification Spec: the useTransfer hook under any interleaving of mount, *)
(* wallet store changes, transfer() calls, their settlements and reset()     *)

Init ==
    /\ IdleTransfer
    /\ IdleLazorkit
    /\ IdleBalance
    /\ IdleNormalizer
    /\ IdleAmount

Next ==
    \/ TransferMountEffect
    \/ TransferInitStoreResumes
    \/ TransferInitStoreFails
    \/ \E w \in WalletAddresses \cup {Null} : StoreWalletChanges(w)
    \/ \E r \in Recipients, a \in TransferAmounts : Transfer(r, a)
    \/ \E i \in 1..Len(calls) : TransferSubmits(i)
    \/ \E i \in 1..Len(calls), e \in ExternalErrors : TransferSubmitThrows(i, e)
    \/ \E i \in 1..Len(calls), e \in ExternalErrors : TransferImportRejects(i, e)
    \/ \E i \in 1..Len(calls), sig \in Signatures : TransferResolves(i, sig)
    \/ \E i \in 1..Len(calls), e \in ExternalErrors : TransferRejects(i, e)
    \/ Reset

Spec == Init /\ [][Next]_vars

----------------------------------------------------------------------------
(* Specification SpecSubmit: transfers of small amounts to a valid recipient *)
(* from mount to the settlement of signAndSendTransaction                    *)

\* 0, a tenth of a lamport, nine tenths of a lamport, one lamport, 0.001 SOL
SubmitAmounts == {Dec(0, 0), Dec(1, 10), Dec(9, 10), Dec(1, 9), Dec(1, 3)}

NextSubmit ==
    \/ TransferMountEffect
    \/ TransferInitStoreResumes
    \/ \E w \in WalletAddresses : StoreWalletChanges(w)
    \/ \E r \in {x \in Recipients : isValidSolanaAddress(x)},
          a \in SubmitAmounts : Transfer(r, a)
    \/ \E i \in 1..Len(calls) : TransferSubmits(i)
    \/ \E i \in 1..Len(calls), sig \in Signatures : TransferResolves(i, sig)
    \/ \E i \in 1..Len(calls) : TransferRejects(i, Str(<<"User rejected">>))

SpecSubmit == Init /\ [][NextSubmit]_vars

----------------------------------------------------------------------------
(* Specification SpecWallet: the useLazorkit hook under any interleaving of   *)
(* mount, store changes, createWallet/login/logout calls and their steps      *)

InitWallet ==
    /\ IdleLazorkit
    /\ IdleTransfer
    /\ IdleBalance
    /\ IdleNormalizer
    /\ IdleAmount

NextWallet ==
    \/ LazorkitMountEffect
    \/ LazorkitInitStoreResumes
    \/ LazorkitInitStoreFails
    \/ \E s \in SdkStates : SdkStoreChanges(s)
    \/ \E kind \in Actions : LazorkitCall(kind)
    \/ \E e \in OpErrors : CreateWalletStorageThrows(e)
    \/ \E i \in 1..Len(ops) : LazorkitProviderImported(i)
    \/ \E i \in 1..Len(ops) : LazorkitStoreInitialized(i)
    \/ \E i \in 1..Len(ops) : LazorkitConnects(i)
    \/ \E i \in 1..Len(ops), e \in OpErrors : LazorkitOpFails(i, e)
    \/ \E i \in 1..Len(ops) : LazorkitOpResolves(i)
    \/ ClearError

SpecWallet == InitWallet /\ [][NextWallet]_vars

----------------------------------------------------------------------------
(* Specification SpecSetup: LazorkitProvider's one-time setup and the SDK's   *)
(* writes to localStorage, interleaved with the createWallet/login/logout     *)
(* calls of useLazorkit and their steps                                       *)

NextSetup ==
    \/ ProviderMountEffect
    \/ ProviderStoreInitialized
    \/ ProviderInitFails
    \/ SdkPersists
    \/ \E kind \in Actions : LazorkitCall(kind)
    \/ \E e \in OpErrors : CreateWalletStorageThrows(e)
    \/ \E i \in 1..Len(ops) : LazorkitProviderImported(i)
    \/ \E i \in 1..Len(ops) : LazorkitStoreInitialized(i)
    \/ \E i \in 1..Len(ops) : LazorkitConnects(i)
    \/ \E i \in 1..Len(ops), e \in OpErrors : LazorkitOpFails(i, e)
    \/ \E i \in 1..Len(ops) : LazorkitOpResolves(i)

SpecSetup == InitWallet /\ [][NextSetup]_vars

----------------------------------------------------------------------------
(* Specification SpecBalance: the useBalance hook under any interleaving of   *)
(* renders with a new address, timer ticks, refresh() and read settlements    *)

InitBalance ==
    /\ IdleBalance
    /\ IdleLazorkit
    /\ IdleTransfer
    /\ IdleNormalizer
    /\ IdleAmount

NextBalance ==
    \/ \E a \in BalanceAddresses \cup {Null} : BalanceMount(a)
    \/ \E a \in BalanceAddresses \cup {Null} : BalanceAddressChanges(a)
    \/ \E k \in 1..Len(timers) : BalanceTimerFires(k)
    \/ BalanceRefresh
    \/ \E i \in 1..Len(fetches), l \in BalanceResults : BalanceFetchResolves(i, l)
    \/ \E i \in 1..Len(fetches) : BalanceFetchRejects(i, Err(<<"Failed to fetch">>))
    \/ BalanceUnmount

SpecBalance == InitBalance /\ [][NextBalance]_vars

----------------------------------------------------------------------------
(* Specification SpecSubscriptions: the initialization effects of both hooks, *)
(* run any number of times, and the wallet store changing under them          *)

NextSubscriptions ==
    \/ TransferMountEffect
    \/ TransferInitStoreResumes
    \/ TransferInitStoreFails
    \/ \E w \in WalletAddresses \cup {Null} : StoreWalletChanges(w)
    \/ LazorkitMountEffect
    \/ LazorkitInitStoreResumes
    \/ LazorkitInitStoreFails
    \/ \E s \in SdkStates : SdkStoreChanges(s)

SpecSubscriptions == InitWallet /\ [][NextSubscriptions]_vars

----------------------------------------------------------------------------
(* Claims about useTransfer *)

\* C1: in every state of the hook, status "confirmed" comes with a signature
\* and no error, status "failed" with an error and no signature, and status
\* "pending" or "idle" with neither.
C1_StateInvariant ==
    /\ state.status \in {"idle", "pending", "confirmed", "failed"}
    /\ state.status = "confirmed" => state.signature # Null /\ state.error = Null
    /\ state.status = "failed" => state.error # Null /\ state.signature = Null
    /\ state.status \in {"pending", "idle"} =>
           state.signature = Null /\ state.error = Null

\* a transfer failed after an earlier one was confirmed
C1_Witness ==
    /\ state.status = "failed"
    /\ \E i \in 1..Len(calls) : calls[i].promise.k = "fulfilled"

\* the transfer() call made by this step, if the step is a call
NewCall == calls'[Len(calls')]
IsCallStep == Len(calls') = Len(calls) + 1

\* the fail-fast check a call fails, in the order wallet, recipient, amount
FailingCheck(c) ==
    IF c.from = Null THEN "wallet"
    ELSE IF ~isValidSolanaAddress(c.recipient) THEN "recipient"
    ELSE IF ~c.amount.nan /\ c.amount.num <= 0 THEN "amount"
    ELSE "none"

\* C4: a transfer() call that fails a fail-fast check never calls
\* signAndSendTransaction and leaves isSubmitting at the value it had before
\* the call, also while an earlier transfer is pending.
C4_FailFastLeavesSubmitting ==
    [][IsCallStep /\ FailingCheck(NewCall) # "none" =>
           /\ ~NewCall.invoked
           /\ NewCall.pc = "done"
           /\ state'.isSubmitting = state.isSubmitting]_vars

\* C5: the fail-fast checks run in the order wallet, recipient, amount; the
\* first that fails stores its message with status "failed" and no signature,
\* and the call rejects.
C5_FailFastOrder ==
    [][IsCallStep =>
         LET c == NewCall
             expected ==
                 CASE FailingCheck(c) = "wallet" ->
                          <<"Please connect your wallet first.">>
                   [] FailingCheck(c) = "recipient" ->
                          <<"Invalid recipient address">>
                   [] OTHER -> <<"Amount must be greater than 0">>
         IN  FailingCheck(c) # "none" =>
                 /\ state' = [isSubmitting |-> FALSE, signature |-> Null,
                              error |-> Str(expected), status |-> "failed"]
                 /\ c.promise.k = "rejected"]_vars

\* a call that fails all three checks has stored the wallet message
C5_Witness ==
    /\ calls # <<>>
    /\ LET c == calls[Len(calls)]
       IN  /\ c.from = Null
           /\ ~isValidSolanaAddress(c.recipient)
           /\ c.amount = Dec(0, 0)
           /\ c.promise.k = "rejected"
    /\ state.error = Str(<<"Please connect your wallet first.">>)
    /\ state.status = "failed"

\* C6: a call that passes the checks sets {pending, isSubmitting, no signature,
\* no error}; signAndSendTransaction is called only by a later step of that
\* call; when it resolves with s the state is {confirmed, s, no error, not
\* submitting} and the call resolves with s.
C6_PassingTransfer ==
    [][/\ IsCallStep /\ NewCall.pc # "done" =>
              /\ FailingCheck(NewCall) = "none"
              /\ ~NewCall.invoked
              /\ state' = [isSubmitting |-> TRUE, signature |-> Null,
                           error |-> Null, status |-> "pending"]
       /\ \A i \in 1..Len(calls) :
              calls'[i].invoked /\ ~calls[i].invoked =>
                  calls[i].pc = "importing" /\ FailingCheck(calls[i]) = "none"
       /\ \A i \in 1..Len(calls) :
              calls[i].promise.k = "pending" /\ calls'[i].promise.k = "fulfilled" =>
                  /\ calls[i].invoked
                  /\ calls'[i].promise.v.t = "string"
                  /\ state' = [isSubmitting |-> FALSE,
                               signature |-> calls'[i].promise.v,
                               error |-> Null, status |-> "confirmed"]]_vars

\* a transfer has resolved with "sig123" and the state shows it confirmed
C6_Witness ==
    /\ \E i \in 1..Len(calls) :
           calls[i].invoked /\ calls[i].promise = Fulfilled(Str(<<"sig123">>))
    /\ state = [isSubmitting |-> FALSE, signature |-> Str(<<"sig123">>),
                error |-> Null, status |-> "confirmed"]

\* C7: when a call that passed the checks catches a thrown or rejected value
\* e, the state is {failed, no signature, transformError(e), not submitting}
\* and the call rejects with e itself; for an Error whose message is
\* "Blockhash not found" the stored error is "Transaction expired. Please try
\* again.".
C7_FailedTransfer ==
    [][\A i \in 1..Len(calls') :
           /\ calls'[i].caught.called
           /\ i <= Len(calls) => ~calls[i].caught.called
           => LET e == calls'[i].caught.arg
              IN  /\ FailingCheck(calls'[i]) = "none"
                  /\ state' = [isSubmitting |-> FALSE, signature |-> Null,
                               error |-> Str(transformError(e)),
                               status |-> "failed"]
                  /\ calls'[i].promise = Rejected(e)
                  /\ e = Err(<<"Blockhash not found">>) =>
                         state'.error =
                             Str(<<"Transaction expired. Please try again.">>)]_vars

\* a call was rejected with "Blockhash not found" and the state shows the
\* canonical message
C7_Witness ==
    /\ \E i \in 1..Len(calls) :
           /\ calls[i].invoked
           /\ calls[i].promise = Rejected(Err(<<"Blockhash not found">>))
    /\ state = [isSubmitting |-> FALSE, signature |-> Null,
                error |-> Str(<<"Transaction expired. Please try again.">>),
                status |-> "failed"]

\* C26: isSubmitting is true and status is pending at every moment at which
\* a signAndSendTransaction dispatched by transfer() has not settled: neither
\* reset() nor a later transfer() that fails validation makes the state report
\* isSubmitting = false while a submission is in flight.
C26_SubmittingWhileInFlight ==
    (\E i \in 1..Len(calls) : calls[i].pc = "sent") =>
        /\ state.isSubmitting = TRUE
        /\ state.status = "pending"

\* C27: after reset() the state equals the initial state and stays equal to
\* it until the next transfer() call: no step other than a transfer() call,
\* the settlement of a transfer started before the reset included, writes
\* into a state that equals the initial state.
C27_ResetHoldsUntilNextTransfer ==
    [][(state = [isSubmitting |-> FALSE, signature |-> Null, error |-> Null,
                 status |-> "idle"]
          /\ Len(calls') = Len(calls))
         => state' = state]_vars

\* C28: every instruction handed to signAndSendTransaction carries at least
\* one lamport: no amount that passes the `amount <= 0` check is converted to
\* 0 lamports and submitted.
C28_AtLeastOneLamport ==
    \A i \in 1..Len(calls) : calls[i].invoked => calls[i].lamports.n >= 1

----------------------------------------------------------------------------
(* Claims about useLazorkit *)

\* C3: the step by which a createWallet, login or logout call settles, be it
\* by resolving or by catching a thrown or rejected value at any of its steps,
\* leaves isOperating false; and whenever every call made has settled,
\* isOperating is false.
C3_BusyFlag ==
    /\ []((\A i \in 1..Len(ops) : ops[i].pc = "done") => isOperating = FALSE)
    /\ [][\A i \in 1..Len(ops') :
              /\ ops'[i].pc = "done"
              /\ i <= Len(ops) => ops[i].pc # "done"
              => isOperating' = FALSE]_vars

\* one call has settled by catching a value, another by resolving, and the
\* flag is down
C3_Witness ==
    /\ isOperating = FALSE
    /\ \E i, j \in 1..Len(ops) :
           /\ ops[i].pc = "done" /\ ops[i].caught.called
           /\ ops[j].pc = "done" /\ ~ops[j].caught.called

\* C12: whenever a createWallet, login or logout call has started and not yet
\* settled, the isLoading the hook returns is true.
C12_BusyPrecedence ==
    (\E i \in 1..Len(ops) : ops[i].pc # "done") => lazorkitIsLoading

\* C13: the step in which createWallet, login or logout calls connect() or
\* disconnect() is taken only when setConfig has been applied to the store.
C13_SetupBeforeOperation ==
    [][\A i \in 1..Len(ops) :
           ops[i].pc = "importWallet" /\ ops'[i].pc = "settling"
           => sdkConfigured]_vars

\* C14: however often the initialization effect of useTransfer or of
\* useLazorkit is run, the hook has registered at most one callback on the
\* wallet store, and none before its effect first ran.
C14_SubscribeOnce ==
    /\ tSubscriptions \in {0, 1}
    /\ lzSubscriptions \in {0, 1}
    /\ tSubscriptions = 1 => tMountedRef /\ tInitStore = "subscribed"
    /\ lzSubscriptions = 1 => lzMountedRef /\ lzInitStore = "subscribed"

\* both hooks have subscribed
C14_Witness ==
    /\ tSubscriptions = 1
    /\ lzSubscriptions = 1

\* C15: once useLazorkit has read the store and subscribed, after every
\* step (store notifications, calls of the actions and their settlements, in
\* any order) its state is the projection of the store's latest state:
\* isConnected says a wallet is present, walletAddress is wallet.smartWallet
\* or null, sdkIsLoading is isLoading or isConnecting.
C15_Projection ==
    lzInitStore = "subscribed" =>
        /\ isConnected = (sdkState.wallet # Null)
        /\ sdkState.wallet = Null => walletAddress = Null
        /\ sdkState.wallet # Null => walletAddress = sdkState.wallet.smartWallet
        /\ sdkIsLoading = (sdkState.isLoading \/ sdkState.isConnecting)

\* the store went to "connecting" and then to "connected" while a call was in
\* flight, and the hook shows the connected wallet
C15_Witness ==
    /\ lzInitStore = "subscribed"
    /\ \E i \in 1..Len(ops) : ops[i].pc = "settling"
    /\ sdkState.wallet # Null
    /\ walletAddress = Str(<<"SmartWallet1111">>)
    /\ isConnected
    /\ ~sdkIsLoading

\* C16: when the subscribed hook processes a store notification whose state
\* carries an error, its published error becomes transformError of that error.
C16_NotifiedError ==
    [][(sdkState' # sdkState /\ lzSubscriptions > 0 /\ sdkState'.error # Null)
         => localError' = Str(transformError(sdkState'.error))]_vars

\* the store reported NotAllowedError and the hook publishes its canonical
\* message
C16_Witness ==
    /\ lzSubscriptions = 1
    /\ sdkState.error = Err(<<"NotAllowedError">>)
    /\ localError = Str(<<"Passkey operation was cancelled or not allowed.">>)

\* C17: at the step in which a createWallet call calls connect(), none of the
\* four wallet identifier keys holds a value written before that createWallet
\* call was made.
C17_ClearedBeforeConnect ==
    [][\A i \in 1..Len(ops) :
           /\ ops[i].kind = "createWallet"
           /\ ops[i].pc = "importWallet"
           /\ ops'[i].pc = "settling"
           => \A k \in {"lazorkit-wallet", "CREDENTIAL_ID", "PUBLIC_KEY",
                        "SMART_WALLET_ADDRESS"} :
                  k \in DOMAIN localStorage => localStorage[k] >= i]_vars

\* a createWallet call made with the keys present is awaiting connect() and
\* the keys are gone
C17_Witness ==
    /\ \E i \in 1..Len(ops) : ops[i].kind = "createWallet" /\ ops[i].pc = "settling"
    /\ DOMAIN localStorage = {}

\* C18: the wallet identifier keys are removed only by the step that starts a
\* createWallet call: login, logout, their later steps, clearError and the
\* processing of store notifications leave localStorage as it is.
C18_OnlyCreateWalletClears ==
    [][(\E k \in DOMAIN localStorage : k \notin DOMAIN localStorage')
         => /\ Len(ops') = Len(ops) + 1
            /\ ops'[Len(ops')].kind = "createWallet"]_vars

\* a login and a logout have run to the end and the keys are still there
C18_Witness ==
    /\ DOMAIN localStorage = {"lazorkit-wallet", "CREDENTIAL_ID", "PUBLIC_KEY",
                              "SMART_WALLET_ADDRESS"}
    /\ \E i, j \in 1..Len(ops) :
           /\ ops[i].kind = "login" /\ ops[i].pc = "done"
           /\ ops[j].kind = "logout" /\ ops[j].pc = "done"

\* C19: a step that takes the published error from a message to null without
\* starting an action (the only such step is clearError) changes nothing
\* else: walletAddress, isConnected, isOperating, sdkIsLoading, the store,
\* localStorage and every call in flight stay as they are.
C19_ClearErrorFrame ==
    [][(localError # Null /\ localError' = Null /\ Len(ops') = Len(ops))
         => UNCHANGED <<walletAddress, isConnected, isOperating, sdkIsLoading,
                        sdkState, sdkConfigured, localStorage, ops,
                        lzSubscriptions, lzInitStore>>]_vars

\* the last call made failed and published an error, the error has since been
\* cleared, an earlier call is still in flight and the hook still shows the
\* connected wallet
C19_Witness ==
    /\ ops # <<>>
    /\ ops[Len(ops)].caught.called
    /\ localError = Null
    /\ \E i \in 1..Len(ops) : ops[i].pc # "done"
    /\ isConnected
    /\ walletAddress = Str(<<"SmartWallet1111">>)

\* C20: when a createWallet, login or logout call settles after its setup or
\* its connect()/disconnect() failed with e, the promise it returned is
\* fulfilled, not rejected, and at that step the published error is
\* transformError(e); a call that settles without a failure is fulfilled too.
C20_CaughtAtBoundary ==
    [][\A i \in 1..Len(ops') :
           /\ ops'[i].pc = "done"
           /\ i <= Len(ops) => ops[i].pc # "done"
           => /\ ops'[i].promise.k = "fulfilled"
              /\ ops'[i].caught.called =>
                     localError' = Str(transformError(ops'[i].caught.arg))]_vars

\* a call caught 'Load failed', returned normally and the hook publishes the
\* canonical message
C20_Witness ==
    /\ \E i \in 1..Len(ops) :
           /\ ops[i].caught = Call(Str(<<"Load failed">>))
           /\ ops[i].promise.k = "fulfilled"
    /\ localError = Str(<<"Failed to connect to Lazorkit services. Please try again.">>)

\* C30: processing a store notification that carries no error leaves the
\* published error unchanged; a published error is cleared only by
\* clearError() (a step that changes nothing else) or by the start of a
\* createWallet, login or logout call; and the initial getState() read
\* leaves the published error as it was.
C30_ErrorFreeNotification ==
    [][/\ (sdkState' # sdkState /\ sdkState'.error = Null)
            => localError' = localError
       /\ (localError # Null /\ localError' = Null)
            => \/ Len(ops') = Len(ops) + 1
               \/ UNCHANGED <<isOperating, walletAddress, isConnected,
                              sdkIsLoading, lzMountedRef, lzInitStore,
                              lzSubscriptions, sdkState, sdkConfigured,
                              localStorage, ops>>
       /\ (lzInitStore = "importing" /\ lzInitStore' = "subscribed")
            => localError' = localError]_vars

\* C30 witness: with no action ever called, the subscribed hook still
\* publishes the error of a NotAllowedError notification although the store
\* has since notified a connected, error-free state
C30_Witness ==
    /\ ops = <<>>
    /\ lzSubscriptions = 1
    /\ localError = Str(<<"Passkey operation was cancelled or not allowed.">>)
    /\ sdkState = SdkState(Wallet(Str(<<"SmartWallet1111">>)), FALSE, FALSE, Null)
    /\ isConnected

----------------------------------------------------------------------------
(* Claims about useBalance *)

\* C2: a read that completes, by resolving or by rejecting, after the wallet
\* address has changed from the one it was dispatched for is discarded: it
\* changes none of balance, balanceLamports and error.
C2_StaleDiscard ==
    [][\A i \in 1..Len(fetches) :
           /\ fetches[i].promise = Pending
           /\ fetches'[i].promise # Pending
           /\ fetches[i].address # addressProp
           => UNCHANGED <<balance, balanceLamports, balanceError>>]_vars

\* C21: at most one interval timer is running, it is the one intervalRef
\* holds and it polls the current address; no timer is running while the
\* address is null, before the hook is mounted or after it is unmounted.
C21_NoOrphanedTimers ==
    /\ Len(timers) <= 1
    /\ \A k \in 1..Len(timers) :
           /\ timers[k].address = addressProp
           /\ intervalRef = timers[k]
    /\ (addressProp = Null \/ balMounted # "mounted") => timers = <<>>

\* the address changed from WalletA, whose read is still pending, to WalletB,
\* and the one running timer polls WalletB
C21_Witness ==
    /\ \E i \in 1..Len(fetches) : fetches[i].address.text = <<"WalletA">>
    /\ addressProp # Null
    /\ addressProp.text = <<"WalletB">>
    /\ Len(timers) = 1
    /\ timers[1].address.text = <<"WalletB">>

\* C22: the step in which the mounted hook is rendered with another address
\* (or with null) leaves balance, balanceLamports and error null.
C22_ResetOnAddressChange ==
    [][(balMounted = "mounted" /\ addressProp' # addressProp)
         => /\ balance' = Null
            /\ balanceLamports' = Null
            /\ balanceError' = Null]_vars

\* C23: the step in which the hook is first rendered with, or re-rendered
\* with another, address that PublicKey accepts dispatches a read for that
\* address at once and leaves exactly the timer for that address running;
\* every later dispatch (a timer tick or refresh()) is a read for the current
\* address made the same way (isLoading set, error cleared, balance kept) and
\* leaves the timer and intervalRef as they are.
C23_FetchOnChangeAndTick ==
    [][/\ (addressProp' # addressProp /\ addressProp' # Null
             /\ addressProp'.base58 /\ addressProp'.bytes = 32)
          => /\ Len(fetches') = Len(fetches) + 1
             /\ fetches'[Len(fetches')].address = addressProp'
             /\ fetches'[Len(fetches')].promise.k = "pending"
             /\ timers' = <<[address |-> addressProp']>>
       /\ (addressProp' = addressProp /\ Len(fetches') = Len(fetches) + 1)
          => /\ fetches'[Len(fetches')].address = addressProp
             /\ fetches'[Len(fetches')].promise.k = "pending"
             /\ isLoading'
             /\ balanceError' = Null
             /\ UNCHANGED <<timers, intervalRef, balance, balanceLamports>>
             /\ timers = <<[address |-> addressProp]>>]_vars

\* after WalletA the hook was rendered with WalletB: a read for WalletB was
\* dispatched at once and another by a tick or a refresh, and WalletB's timer
\* is the one running
C23_Witness ==
    /\ Len(fetches) = 3
    /\ fetches[1].address.text = <<"WalletA">>
    /\ fetches[2].address.text = <<"WalletB">>
    /\ fetches[3].address.text = <<"WalletB">>
    /\ addressProp = fetches[3].address
    /\ timers = <<[address |-> addressProp]>>

\* C29: in every reachable state of useBalance a non-null balance and a
\* non-null error are never present together, and balance is null exactly
\* when balanceLamports is null, whatever the order in which the reads of
\* timer fetches, refreshes and address changes resolve or reject.
C29_BalanceExcludesError ==
    /\ balance # Null => balanceError = Null
    /\ balance = Null <=> balanceLamports = Null

----------------------------------------------------------------------------
(* Claims about WalletBalance                                                *)

\* ip.fp with fp of `width` digits, zeros that end the fraction left out
RECURSIVE TruncatedDecimal(_, _, _)
TruncatedDecimal(ip, fp, width) ==
    IF fp = 0 THEN DecimalDigits(ip)
    ELSE IF fp % 10 = 0 THEN TruncatedDecimal(ip, fp \div 10, width - 1)
    ELSE DecimalDigits(ip) \o <<".">> \o PaddedDigits(fp, width)

\* a balance of L lamports cut (not rounded) to four decimals of SOL
CutToFourDecimals(L) ==
    LET t == L \div 100000
    IN  TruncatedDecimal(t \div 10000, t % 10000, 4)

\* C24: formatBalance of L / 10^9 is '0' when L = 0, '< 0.0001' for a
\* non-zero balance below 0.0001, and otherwise the value truncated, not
\* rounded, to at most four decimals without the zeros (and then the point)
\* that end it
C24_FormatBalance ==
    fmtOut # Undefined =>
        fmtOut = Str(IF fmtLamports = 0 THEN <<"0">>
                     ELSE IF fmtLamports < 100000
                          THEN <<"<", " ", "0", ".", "0", "0", "0", "1">>
                          ELSE CutToFourDecimals(fmtLamports))

----------------------------------------------------------------------------
(* Claims about the error normalizer *)

\* rule i's pattern occurs in the message s (stated without the scan)
RuleMatches(i, s) ==
    IF ERROR_MAPPINGS[i].isRegExp
    THEN \E k \in 1..Len(ERROR_MAPPINGS[i].alts) :
             Includes(s, ERROR_MAPPINGS[i].alts[k])
    ELSE Includes(s, ERROR_MAPPINGS[i].text)

MatchingRules(s) == {i \in 1..Len(ERROR_MAPPINGS) : RuleMatches(i, s)}

MinOf(S) == CHOOSE i \in S : \A j \in S : i <= j

AbsentRule == CHOOSE i \in 1..Len(ERROR_MAPPINGS) :
                  ERROR_MAPPINGS[i].message = PasskeyAbsentMessage
MalformedRule == CHOOSE i \in 1..Len(ERROR_MAPPINGS) :
                     ERROR_MAPPINGS[i].message = PasskeyMalformedMessage

\* C9: rule priority.  When transformError has returned for an input with an
\* extracted message, and that message matches one or more rules, the result
\* is the canonical message of the matching rule with the smallest index.  A
\* message containing 'passkeyPublicKey must be exactly 33 bytes, got 0' never
\* yields the credential-malformed message, and yields the credential-absent
\* message unless a rule listed before it matches too; a message containing
\* 'passkeyPublicKey must be exactly 33 bytes' without ', got 0' yields the
\* credential-malformed message unless a rule listed before it matches too.
C9_RulePriority ==
    (errOut # Undefined /\ ExtractMessage(errIn.arg) # Undefined) =>
        LET s == ExtractMessage(errIn.arg).s
            M == MatchingRules(s)
        IN  /\ M # {} => errOut = Str(ERROR_MAPPINGS[MinOf(M)].message)
            /\ Includes(s, <<P33, Got0>>) =>
                 /\ errOut # Str(PasskeyMalformedMessage)
                 /\ MinOf(M) = AbsentRule => errOut = Str(PasskeyAbsentMessage)
            /\ (Includes(s, <<P33>>) /\ ~Includes(s, <<P33, Got0>>)
                  /\ MinOf(M) = MalformedRule)
                 => errOut = Str(PasskeyMalformedMessage)

\* C9 witness: a message matching both passkeyPublicKey rules got the
\* credential-absent message
C9_Witness ==
    /\ errIn.called
    /\ errIn.arg = Err(<<"other text", P33, Got0>>) \/ errIn.arg = Err(<<P33, Got0>>)
    /\ Cardinality(MatchingRules(errIn.arg.message)) >= 2
    /\ errOut = Str(PasskeyAbsentMessage)

\* C11: when the extracted message matches no rule, transformError returns the
\* message with its leading and trailing whitespace removed, or the fallback
\* when nothing is left; and transformError returns no empty string for any
\* input.
C11_Unmatched ==
    errOut # Undefined =>
        /\ errOut.s # <<>>
        /\ \A k \in 1..Len(errOut.s) : errOut.s[k] # ""
        /\ (ExtractMessage(errIn.arg) # Undefined
              /\ MatchingRules(ExtractMessage(errIn.arg).s) = {}) =>
               LET s == ExtractMessage(errIn.arg).s
                   first == CHOOSE a \in 1..(Len(s) + 1) :
                                /\ \A k \in 1..(a - 1) : s[k] = " "
                                /\ a <= Len(s) => s[a] # " "
                   last == CHOOSE b \in 0..Len(s) :
                                /\ \A k \in (b + 1)..Len(s) : s[k] = " "
                                /\ b >= 1 => s[b] # " "
               IN  errOut = IF first > last THEN Str(FallbackMessage)
                            ELSE Str(SubSeq(s, first, last))

\* C11 witness: a whitespace-only message got the fallback, or a padded
\* unmatched message came back trimmed
C11_Witness ==
    /\ errIn.called
    /\ errIn.arg.t = "Error"
    /\ \/ errIn.arg.message = <<" ", " ">> /\ errOut = Str(FallbackMessage)
       \/ errIn.arg.message = <<" ", "other text", " ">>
            /\ errOut = Str(<<"other text">>)


\* C25: for every non-nullish input transformError extracts a message string
\* and classifies it with the rules: the `message` field of an Error or of an
\* object that has one, a string as it is, and for any other value (an object
\* without a `message` field, a number, a boolean) the stringified value
\* (the result is that text's first matching rule's message, or the trimmed
\* text, never the fallback given without consulting the rules).
C25_EveryValueClassified ==
    (errOut # Undefined /\ errIn.arg.t \notin {"null", "undefined"}) =>
        LET v == errIn.arg
            s == CASE v.t = "Error"  -> v.message
                   [] v.t = "string" -> v.s
                   [] v.t = "object" /\ v.hasMessage -> JSString(v.message)
                   [] OTHER -> JSString(v)
            M == MatchingRules(s)
        IN  errOut = Str(IF M # {} THEN ERROR_MAPPINGS[MinOf(M)].message
                         ELSE IF Trim(s) = <<>> THEN FallbackMessage
                         ELSE Trim(s))

\* C10: determinism.  After any sequence of calls, the value returned by the
\* latest call is the value a first call on the same input returns; two
\* consecutive calls on the same input return the same value; the RegExp
\* object carries no state (lastIndex stays 0); and null and undefined both
\* yield the fallback message.
C10_Deterministic ==
    errIn.called =>
        /\ errOut = Str(transformErrorCall(errIn.arg, 0).result)
        /\ (prevIn.called /\ prevIn.arg = errIn.arg) => errOut = prevOut
        /\ reLastIndex = 0
        /\ errIn.arg \in {Null, Undefined} => errOut = Str(FallbackMessage)

\* C10 witness: the same RegExp-matching input was normalized twice in a row
C10_Witness ==
    /\ errIn.called /\ prevIn.called
    /\ errIn.arg = Err(<<"ECONNREFUSED">>)
    /\ prevIn.arg = errIn.arg
    /\ errOut = Str(NetworkRegExp.message)
    /\ prevOut = errOut

----------------------------------------------------------------------------
(* Claims about the amount conversion *)

\* floor(num / 10^dec * 10^9) in exact arithmetic
ExactLamports(amount) ==
    IF amount.dec <= 9 THEN amount.num * 10 ^ (9 - amount.dec)
    ELSE amount.num \div 10 ^ (amount.dec - 9)

\* C8: floor law.  For every amount > 0, taken as an exact decimal quantity of
\* SOL, the lamports placed in the instruction equal floor(amount * 10^9).
C8_FloorLaw ==
    lamportsOut # Undefined => lamportsOut = Int32(ExactLamports(amountIn))

=============================================================================
